---- MODULE Spec2Model ----
(***************************************************************************)
(* The runtime value model of src/compiler/runtime.{h,cpp}: the four value *)
(* variants held through shared pointers, the List operations, the Context *)
(* scope chain and the standard-library builtins.                          *)
(*                                                                         *)
(* A shared_ptr<Value> is an object identity: the heap maps identities to  *)
(* objects, and every holder (a List element, a Context binding, an        *)
(* argument, the caller's result handle) is an identity.  Two holders      *)
(* alias exactly when they hold the same identity.                         *)
(***************************************************************************)
EXTENDS Integers, Sequences, FiniteSets, TLC

\* ------------------------------------------------------------------ bounds
\* Heap slots: the objects the caller holds from the start, and room for the
\* results and temporaries of one call.
MaxObj == 9
\* Longest List the model builds.
MaxLen == 3
\* Most arguments handed to a builtin.
MaxArgs == 3
\* Most Contexts alive at once.
MaxCtx == 3
\* Longest text of the String handed to num.
MaxText == 3

\* The most entries in each of the Compiler's path and library vectors.
MaxPaths == 1

VARIABLES
    heap,   \* identity -> object (the targets of all shared_ptr<Value>)
    ctxs,   \* identity -> Context
    last,   \* the call the caller made last, and what it got back
    compiler,   \* the Compiler object
    os      \* the files and the commands run, as the Compiler leaves them

vars == <<heap, ctxs, last, compiler, os>>

\* ------------------------------------------------------------ value objects
\* A double is modelled exactly, as a fraction <<numerator, denominator>>.
Zero == <<0, 1>>

NoObj == [type |-> "None", number |-> Zero, text |-> <<>>, elements |-> <<>>, name |-> ""]

Number(v) == [NoObj EXCEPT !.type = "Number", !.number = v]

String(s) == [NoObj EXCEPT !.type = "String", !.text = s]

List(es) == [NoObj EXCEPT !.type = "List", !.elements = es]

Function(n) == [NoObj EXCEPT !.type = "Function", !.name = n]

isNumber(o) == o.type = "Number"

isString(o) == o.type = "String"

isList(o) == o.type = "List"

isFunction(o) == o.type = "Function"

Ids == 1..MaxObj

\* std::make_shared: the new object gets an identity no live object has.
HasFree(h) == \E i \in Ids : h[i].type = "None"

Fresh(h) == CHOOSE i \in Ids : h[i].type = "None" /\ \A j \in Ids : j < i => h[j].type # "None"

\* The objects the caller holds for the whole run (its own variables).
\*   1: Number(1)   2: String("ab")   3: Function f
\*   4: a List      5: a List whose one element is List 4
Handles == 1..5

InitHeap == [i \in Ids |-> CASE i = 1 -> Number(<<1, 1>>)
                             [] i = 2 -> String(<<"a", "b">>)
                             [] i = 3 -> Function("f")
                             [] i = 4 -> List(<<>>)
                             [] i = 5 -> List(<<4>>)
                             [] OTHER -> NoObj]

\* Reference counting: an object lives while some holder has its identity.
\* The holders are the caller's handles, the result handle `keep`, the
\* elements of live Lists and the bindings of live Contexts.
Held(h, cs, keep, i) ==
    \/ i \in Handles
    \/ i = keep
    \/ \E j \in Ids : h[j].type = "List" /\ \E k \in 1..Len(h[j].elements) : h[j].elements[k] = i
    \/ \E c \in DOMAIN cs : cs[c].alive /\ \E n \in DOMAIN cs[c].variables : cs[c].variables[n] = i

RECURSIVE Sweep(_, _, _)
Sweep(h, cs, keep) ==
    LET h2 == [i \in Ids |-> IF Held(h, cs, keep, i) THEN h[i] ELSE NoObj]
    IN IF h2 = h THEN h ELSE Sweep(h2, cs, keep)

\* ------------------------------------------------------------ call results
\* What a call hands back: ok and the identity of the result, or the error
\* kind of the exception thrown, with the heap as the call left it.
Ok(h, r) == [ok |-> TRUE, err |-> "", ref |-> r, heap |-> h]

Fail(h, e) == [ok |-> FALSE, err |-> e, ref |-> 0, heap |-> h]

\* ----------------------------------------------------------------- List
\* index += elements_.size() when negative.  Within the model's bounds the
\* sum never leaves the range of int.
NormalizeIndex(index, n) == IF index < 0 THEN index + n ELSE index

\* make_shared<List>(*this): a new List object with a copy of the element
\* vector (the elements themselves are shared).
List_asList(h, l) == Ok([h EXCEPT ![Fresh(h)] = List(h[l].elements)], Fresh(h))

Value_asList(h, v) == Fail(h, "TypeMismatch")

asList(h, v) == IF isList(h[v]) THEN List_asList(h, v) ELSE Value_asList(h, v)

\* Mutant: the negative index is not wrapped.
List_getItem_NoWrap(h, l, index) ==
    IF index < 0 \/ index >= Len(h[l].elements)
    THEN Fail(h, "IndexOutOfRange")
    ELSE Ok(h, h[l].elements[index + 1])

List_getItem(h, l, index) ==
    LET n == Len(h[l].elements)
        i == NormalizeIndex(index, n)
    IN IF i < 0 \/ i >= n
       THEN Fail(h, "IndexOutOfRange")
       ELSE Ok(h, h[l].elements[i + 1])

\* Mutant: an index below -length is clamped to the first element.
List_setItem_Clamp(h, l, index, value) ==
    LET n == Len(h[l].elements)
        i == NormalizeIndex(index, n)
    IN IF n = 0 \/ i >= n
       THEN Fail(h, "IndexOutOfRange")
       ELSE Ok([h EXCEPT ![l].elements[(IF i < 0 THEN 0 ELSE i) + 1] = value], 0)

List_setItem(h, l, index, value) ==
    LET n == Len(h[l].elements)
        i == NormalizeIndex(index, n)
    IN IF i < 0 \/ i >= n
       THEN Fail(h, "IndexOutOfRange")
       ELSE Ok([h EXCEPT ![l].elements[i + 1] = value], 0)

\* Mutant: the value is put in front.
List_append_Front(h, l, value) == [h EXCEPT ![l].elements = <<value>> \o @]

List_append(h, l, value) == [h EXCEPT ![l].elements = Append(@, value)]

List_length(h, l) == Len(h[l].elements)

\* make_shared<String>(*this): a new String object with the same text.
String_asString(h, s) == Ok([h EXCEPT ![Fresh(h)] = String(h[s].text)], Fresh(h))

\* --------------------------------------------------------------- builtins
\* Error kinds name the throw sites:
\*   "ArityOrType"     len()/append() "requires ..." / "must be a list"
\*   "IndexOutOfRange" "List index out of range"
\*   "ParseError"      "Cannot convert string to number"
\*   "TypeMismatch"    "Cannot convert ..."
\*   "UndefinedVariable" "Variable '...' not defined"

\* for (size_t i = 1; i < args.size(); ++i) list->append(args[i]);
\* (args is 1-based here: position i of the model is args[i-1] of the code)
RECURSIVE AppendFrom(_, _, _, _)
AppendFrom(h, l, args, i) ==
    IF i > Len(args) THEN h
    ELSE AppendFrom(List_append(h, l, args[i]), l, args, i + 1)

append(h, args) ==
    IF Len(args) < 2 THEN Fail(h, "ArityOrType")
    ELSE IF ~isList(h[args[1]]) THEN Fail(h, "ArityOrType")
    ELSE LET list == asList(h, args[1])
         IN Ok(AppendFrom(list.heap, list.ref, args, 2), list.ref)

\* Mutant: the String branch is missing.
len_ListOnly(h, args) ==
    IF Len(args) = 0 THEN Fail(h, "ArityOrType")
    ELSE IF isList(h[args[1]])
    THEN LET list == asList(h, args[1])
             r == Fresh(list.heap)
         IN Ok([list.heap EXCEPT ![r] = Number(<<List_length(list.heap, list.ref), 1>>),
                                 ![list.ref] = NoObj], r)
    ELSE Fail(h, "ArityOrType")

\* The List or String that asList()/asString() returns is a temporary: it is
\* gone when len returns, and only the new Number is handed back.
len(h, args) ==
    IF Len(args) = 0 THEN Fail(h, "ArityOrType")
    ELSE IF isList(h[args[1]])
    THEN LET list == asList(h, args[1])
             r == Fresh(list.heap)
         IN Ok([list.heap EXCEPT ![r] = Number(<<List_length(list.heap, list.ref), 1>>),
                                 ![list.ref] = NoObj], r)
    ELSE IF isString(h[args[1]])
    THEN LET str == String_asString(h, args[1])
             r == Fresh(str.heap)
         IN Ok([str.heap EXCEPT ![r] = Number(<<Len(str.heap[str.ref].text), 1>>),
                                ![str.ref] = NoObj], r)
    ELSE Fail(h, "ArityOrType")

\* std::stod, on texts over Chars.  It skips leading white space, takes an
\* optional sign, then the longest run of digits with at most one '.' in it,
\* and converts that prefix; what follows the prefix is ignored (the pos
\* argument is not passed).  With no digit in the prefix there is no
\* conversion and it throws std::invalid_argument.  Chars holds no 'e', 'x',
\* 'i' or 'n', so exponents, hexadecimal, inf and nan do not arise, and no
\* text of the model is long enough for std::out_of_range.
Digits == {"1", "2"}

Chars == Digits \cup {".", "-", " ", "a"}

DigitValue(ch) == IF ch = "1" THEN 1 ELSE 2

RECURSIVE SkipSpaces(_, _)
SkipSpaces(t, i) == IF i <= Len(t) /\ t[i] = " " THEN SkipSpaces(t, i + 1) ELSE i

RECURSIVE DigitsEnd(_, _)
DigitsEnd(t, i) == IF i <= Len(t) /\ t[i] \in Digits THEN DigitsEnd(t, i + 1) ELSE i

\* The integer the digits t[i..j-1] spell, continuing from acc.
RECURSIVE DigitsValue(_, _, _, _)
DigitsValue(t, i, j, acc) ==
    IF i >= j THEN acc ELSE DigitsValue(t, i + 1, j, 10 * acc + DigitValue(t[i]))

RECURSIVE Pow10(_)
Pow10(k) == IF k = 0 THEN 1 ELSE 10 * Pow10(k - 1)

RECURSIVE Gcd(_, _)
Gcd(a, b) == IF b = 0 THEN a ELSE Gcd(b, a % b)

\* The fraction n/d in lowest terms (d > 0).
Rat(n, d) == LET g == Gcd(IF n < 0 THEN 0 - n ELSE n, d) IN <<n \div g, d \div g>>

stod(t) ==
    LET start == SkipSpaces(t, 1)
        neg == start <= Len(t) /\ t[start] = "-"
        int0 == IF neg THEN start + 1 ELSE start
        int1 == DigitsEnd(t, int0)
        dot == int1 <= Len(t) /\ t[int1] = "."
        frac0 == IF dot THEN int1 + 1 ELSE int1
        frac1 == DigitsEnd(t, frac0)
        mant == DigitsValue(t, frac0, frac1, DigitsValue(t, int0, int1, 0))
    IN IF (int1 - int0) + (frac1 - frac0) = 0
       THEN [ok |-> FALSE, value |-> Zero, used |-> 0]
       ELSE [ok |-> TRUE,
             value |-> Rat(IF neg THEN 0 - mant ELSE mant, Pow10(frac1 - frac0)),
             used |-> frac1 - 1]

\* A new Number, or the argument itself when it is a Number already.  The
\* String that asString() returns is a temporary, gone when num returns.
num(h, args) ==
    IF Len(args) = 0 THEN Ok([h EXCEPT ![Fresh(h)] = Number(Zero)], Fresh(h))
    ELSE IF isNumber(h[args[1]]) THEN Ok(h, args[1])
    ELSE IF isString(h[args[1]])
    THEN LET str == String_asString(h, args[1])
             r == Fresh(str.heap)
             parsed == stod(str.heap[str.ref].text)
         IN IF parsed.ok
            THEN Ok([str.heap EXCEPT ![r] = Number(parsed.value), ![str.ref] = NoObj], r)
            ELSE Fail(h, "ParseError")
    ELSE Fail(h, "TypeMismatch")

\* make_shared<Number>(*this): a new Number object with the same value.
Number_asNumber(h, n) == Ok([h EXCEPT ![Fresh(h)] = Number(h[n].number)], Fresh(h))

\* Mutant: the fraction is cut off downward (floor).
TruncInt_Floor(v) == IF v[1] >= 0 THEN v[1] \div v[2] ELSE 0 - (((0 - v[1]) + v[2] - 1) \div v[2])

\* static_cast<int>(double): the fraction is cut off, toward zero.  Every
\* Number of the model is within the range of int.
TruncInt(v) == IF v[1] >= 0 THEN v[1] \div v[2] ELSE 0 - ((0 - v[1]) \div v[2])

\* Mutant: the TODO is carried out, on the caller's List.
pop_Removes(h, args) ==
    IF Len(args) = 0 THEN Fail(h, "ArityOrType")
    ELSE IF ~isList(h[args[1]]) THEN Fail(h, "ArityOrType")
    ELSE IF Len(h[args[1]].elements) = 0 THEN Fail(h, "EmptyList")
    ELSE LET es == h[args[1]].elements
             index == IF Len(args) > 1 /\ isNumber(h[args[2]])
                      THEN TruncInt(h[args[2]].number) ELSE -1
             got == List_getItem(h, args[1], index)
             pos == NormalizeIndex(index, Len(es)) + 1
         IN IF got.ok
            THEN Ok([h EXCEPT ![args[1]].elements =
                        SubSeq(es, 1, pos - 1) \o SubSeq(es, pos + 1, Len(es))], got.ref)
            ELSE got

\* "Cannot pop from an empty list" is the error kind "EmptyList".  The List
\* that asList() returns and the Number that asNumber() returns are
\* temporaries, gone when pop returns; the element is handed back itself.
pop(h, args) ==
    IF Len(args) = 0 THEN Fail(h, "ArityOrType")
    ELSE IF ~isList(h[args[1]]) THEN Fail(h, "ArityOrType")
    ELSE LET list == asList(h, args[1])
         IN IF List_length(list.heap, list.ref) = 0 THEN Fail(h, "EmptyList")
            ELSE LET index == IF Len(args) > 1 /\ isNumber(h[args[2]])
                              THEN LET n == Number_asNumber(list.heap, args[2])
                                   IN TruncInt(n.heap[n.ref].number)
                              ELSE -1
                     result == List_getItem(list.heap, list.ref, index)
                 IN IF result.ok THEN Ok(h, result.ref) ELSE Fail(h, result.err)

\* ------------------------------------------------------ Value operations
\* Exact arithmetic on fractions (denominators are positive).
RatAdd(a, b) == Rat(a[1] * b[2] + b[1] * a[2], a[2] * b[2])

RatSub(a, b) == Rat(a[1] * b[2] - b[1] * a[2], a[2] * b[2])

RatMul(a, b) == Rat(a[1] * b[1], a[2] * b[2])

\* a / b for b # 0.
RatDiv(a, b) ==
    IF b[1] < 0 THEN Rat(0 - a[1] * b[2], 0 - a[2] * b[1]) ELSE Rat(a[1] * b[2], a[2] * b[1])

RatLt(a, b) == a[1] * b[2] < b[1] * a[2]

\* make_shared<Number>(v)
NewNumber(h, v) == Ok([h EXCEPT ![Fresh(h)] = Number(v)], Fresh(h))

\* make_shared<String>(s)
NewString(h, s) == Ok([h EXCEPT ![Fresh(h)] = String(s)], Fresh(h))

\* other->asNumber()->getValue(): read through the temporary Number that
\* asNumber() returns.
OtherNumber(h, other) == LET n == Number_asNumber(h, other) IN n.heap[n.ref].number

\* other->asString()->getValue(), through the temporary String.
OtherString(h, other) == LET s == String_asString(h, other) IN s.heap[s.ref].text

\* isTrue, by variant.
Number_isTrue(o) == o.number # Zero

String_isTrue(o) == o.text # <<>>

\* Mutant: every List is true.
List_isTrue_Always(o) == TRUE
List_isTrue(o) == o.elements # <<>>

Function_isTrue(o) == TRUE

isTrue(o) ==
    CASE isNumber(o) -> Number_isTrue(o)
      [] isString(o) -> String_isTrue(o)
      [] isList(o) -> List_isTrue(o)
      [] OTHER -> Function_isTrue(o)

\* std::to_string(double): "%f", six decimals, rounded to nearest.
DigitChars == <<"0", "1", "2", "3", "4", "5", "6", "7", "8", "9">>

RECURSIVE NatText(_)
NatText(n) == IF n < 10 THEN <<DigitChars[n + 1]>> ELSE NatText(n \div 10) \o <<DigitChars[(n % 10) + 1]>>

\* The last k digits of n, with leading zeros.
RECURSIVE FixedText(_, _)
FixedText(n, k) == IF k = 0 THEN <<>> ELSE FixedText(n \div 10, k - 1) \o <<DigitChars[(n % 10) + 1]>>

Number_toString(o) ==
    LET n == o.number[1]
        d == o.number[2]
        abs == IF n < 0 THEN 0 - n ELSE n
        scaled == (2 * abs * Pow10(6) + d) \div (2 * d)
    IN (IF n < 0 THEN <<"-">> ELSE <<>>)
          \o NatText(scaled \div Pow10(6)) \o <<".">> \o FixedText(scaled % Pow10(6), 6)

String_toString(o) == o.text

\* "<function " + name_ + ">"; the name is one character in the model.
Function_toString(o) ==
    <<"<", "f", "u", "n", "c", "t", "i", "o", "n", " ">> \o <<o.name>> \o <<">">>

\* "[" e0 ", " e1 ... "]", each element by its own toString.
RECURSIVE toString(_, _)
RECURSIVE List_toStringFrom(_, _, _)
List_toStringFrom(h, es, i) ==
    IF i > Len(es) THEN <<>>
    ELSE (IF i > 1 THEN <<",", " ">> ELSE <<>>) \o toString(h, es[i]) \o List_toStringFrom(h, es, i + 1)

List_toString(h, o) == <<"[">> \o List_toStringFrom(h, o.elements, 1) \o <<"]">>

toString(h, v) ==
    CASE isNumber(h[v]) -> Number_toString(h[v])
      [] isString(h[v]) -> String_toString(h[v])
      [] isList(h[v]) -> List_toString(h, h[v])
      [] OTHER -> Function_toString(h[v])

\* The defaults of Value: every operation throws.
\* Mutant: the default conversion hands back the receiver.
Value_asNumber_Lenient(h, v) == Ok(h, v)

Value_asNumber(h, v) == Fail(h, "TypeMismatch")

Value_asString(h, v) == Fail(h, "TypeMismatch")

Value_asFunction(h, v) == Fail(h, "TypeMismatch")

\* Mutant: an unsupported operation answers Number(0).
Value_binary_Quiet(h, self, other) == NewNumber(h, Zero)
Value_binary(h, self, other) == Fail(h, "UnsupportedOperation")

Value_notted(h, self) == Fail(h, "UnsupportedOperation")

\* make_shared<Function>(*this)
Function_asFunction(h, f) == Ok([h EXCEPT ![Fresh(h)] = Function(h[f].name)], Fresh(h))

\* 1.0 or 0.0
Bool01(b) == IF b THEN <<1, 1>> ELSE Zero

\* result += str, count times (not at all for count <= 0).
RECURSIVE Repeat(_, _, _, _)
Repeat(str, count, i, result) ==
    IF i < count THEN Repeat(str, count, i + 1, result \o str) ELSE result

\* ---- Number
\* Mutant: the sum is stored in the receiver.
Number_addedTo_InPlace(h, self, other) ==
    IF isNumber(h[other])
    THEN Ok([h EXCEPT ![self] = Number(RatAdd(h[self].number, OtherNumber(h, other)))], self)
    ELSE Value_binary(h, self, other)
Number_addedTo(h, self, other) ==
    IF isNumber(h[other]) THEN NewNumber(h, RatAdd(h[self].number, OtherNumber(h, other)))
    ELSE Value_binary(h, self, other)

Number_subbedBy(h, self, other) ==
    IF isNumber(h[other]) THEN NewNumber(h, RatSub(h[self].number, OtherNumber(h, other)))
    ELSE Value_binary(h, self, other)

\* Mutant: the repeat loop runs once more.
Number_multedBy_OneMore(h, self, other) ==
    IF isNumber(h[other]) THEN NewNumber(h, RatMul(h[self].number, OtherNumber(h, other)))
    ELSE IF isString(h[other])
    THEN NewString(h, Repeat(OtherString(h, other), TruncInt(h[self].number) + 1, 0, <<>>))
    ELSE Value_binary(h, self, other)

Number_multedBy(h, self, other) ==
    IF isNumber(h[other]) THEN NewNumber(h, RatMul(h[self].number, OtherNumber(h, other)))
    ELSE IF isString(h[other])
    THEN NewString(h, Repeat(OtherString(h, other), TruncInt(h[self].number), 0, <<>>))
    ELSE Value_binary(h, self, other)

\* Mutant: a zero divisor yields Number(0) instead of failing.
Number_divedBy_ZeroQuiet(h, self, other) ==
    IF isNumber(h[other])
    THEN LET otherValue == OtherNumber(h, other)
         IN IF otherValue = Zero THEN NewNumber(h, Zero)
            ELSE NewNumber(h, RatDiv(h[self].number, otherValue))
    ELSE Value_binary(h, self, other)

Number_divedBy(h, self, other) ==
    IF isNumber(h[other])
    THEN LET otherValue == OtherNumber(h, other)
         IN IF otherValue = Zero THEN Fail(h, "DivisionByZero")
            ELSE NewNumber(h, RatDiv(h[self].number, otherValue))
    ELSE Value_binary(h, self, other)

\* std::pow(a, b). An integer exponent gives an exact fraction; <<1, 0>>
\* stands for +infinity (0 to a negative power) and <<0, 0>> for a double
\* that is no fraction of the model (NaN, or an irrational power).
RECURSIVE PowNat(_, _)
PowNat(a, k) == IF k = 0 THEN <<1, 1>> ELSE RatMul(a, PowNat(a, k - 1))

pow(a, b) ==
    IF b[2] = 1
    THEN IF b[1] >= 0 THEN PowNat(a, b[1])
         ELSE IF a = Zero THEN <<1, 0>>
         ELSE RatDiv(<<1, 1>>, PowNat(a, 0 - b[1]))
    ELSE IF a = <<1, 1>> THEN <<1, 1>>
    ELSE IF a = Zero THEN (IF b[1] > 0 THEN Zero ELSE <<1, 0>>)
    ELSE <<0, 0>>

Number_powedBy(h, self, other) ==
    IF isNumber(h[other]) THEN NewNumber(h, pow(h[self].number, OtherNumber(h, other)))
    ELSE Value_binary(h, self, other)

\* Mutant: equality with a non-Number is unsupported.
Number_comparisonEq_Strict(h, self, other) ==
    IF isNumber(h[other]) THEN NewNumber(h, Bool01(h[self].number = OtherNumber(h, other)))
    ELSE Value_binary(h, self, other)

Number_comparisonEq(h, self, other) ==
    IF isNumber(h[other]) THEN NewNumber(h, Bool01(h[self].number = OtherNumber(h, other)))
    ELSE NewNumber(h, Zero)

Number_comparisonNe(h, self, other) ==
    IF isNumber(h[other]) THEN NewNumber(h, Bool01(h[self].number # OtherNumber(h, other)))
    ELSE NewNumber(h, <<1, 1>>)

\* value_ < other
Number_comparisonLt(h, self, other) ==
    IF isNumber(h[other]) THEN NewNumber(h, Bool01(RatLt(h[self].number, OtherNumber(h, other))))
    ELSE Value_binary(h, self, other)

\* value_ > other
Number_comparisonGt(h, self, other) ==
    IF isNumber(h[other]) THEN NewNumber(h, Bool01(RatLt(OtherNumber(h, other), h[self].number)))
    ELSE Value_binary(h, self, other)

\* value_ <= other
Number_comparisonLte(h, self, other) ==
    IF isNumber(h[other]) THEN NewNumber(h, Bool01(~RatLt(OtherNumber(h, other), h[self].number)))
    ELSE Value_binary(h, self, other)

\* value_ >= other
Number_comparisonGte(h, self, other) ==
    IF isNumber(h[other]) THEN NewNumber(h, Bool01(~RatLt(h[self].number, OtherNumber(h, other))))
    ELSE Value_binary(h, self, other)

\* Mutant: the operand's truthiness is ignored.
Number_andedBy_SelfOnly(h, self, other) == NewNumber(h, Bool01(Number_isTrue(h[self])))

Number_andedBy(h, self, other) == NewNumber(h, Bool01(Number_isTrue(h[self]) /\ isTrue(h[other])))

Number_oredBy(h, self, other) == NewNumber(h, Bool01(Number_isTrue(h[self]) \/ isTrue(h[other])))

Number_notted(h, self) == NewNumber(h, Bool01(~Number_isTrue(h[self])))

\* ---- String
\* Mutant: only a String can be added to a String.
String_addedTo_Strict(h, self, other) ==
    IF isString(h[other]) THEN NewString(h, h[self].text \o OtherString(h, other))
    ELSE Value_binary(h, self, other)

String_addedTo(h, self, other) ==
    IF isString(h[other]) THEN NewString(h, h[self].text \o OtherString(h, other))
    ELSE NewString(h, h[self].text \o toString(h, other))

\* Mutant: the repeat loop runs once more.
String_multedBy_OneMore(h, self, other) ==
    IF isNumber(h[other])
    THEN NewString(h, Repeat(h[self].text, TruncInt(OtherNumber(h, other)) + 1, 0, <<>>))
    ELSE Value_binary(h, self, other)

String_multedBy(h, self, other) ==
    IF isNumber(h[other])
    THEN NewString(h, Repeat(h[self].text, TruncInt(OtherNumber(h, other)), 0, <<>>))
    ELSE Value_binary(h, self, other)

\* ---- copy
Number_copy(h, n) == NewNumber(h, h[n].number)

String_copy(h, s) == NewString(h, h[s].text)

\* make_shared<Function>(name_, function_)
Function_copy(h, f) == Ok([h EXCEPT ![Fresh(h)] = Function(h[f].name)], Fresh(h))

\* copiedElements.push_back(element->copy()) for each element in turn.
RECURSIVE copy(_, _)
RECURSIVE List_copyFrom(_, _, _, _)
List_copyFrom(h, es, i, copiedElements) ==
    IF i > Len(es) THEN [heap |-> h, elements |-> copiedElements]
    ELSE LET c == copy(h, es[i])
         IN List_copyFrom(c.heap, es, i + 1, Append(copiedElements, c.ref))

\* Mutant: the new List shares the elements of the old one.
List_copy_Shallow(h, l) == Ok([h EXCEPT ![Fresh(h)] = List(h[l].elements)], Fresh(h))

List_copy(h, l) ==
    LET c == List_copyFrom(h, h[l].elements, 1, <<>>)
    IN Ok([c.heap EXCEPT ![Fresh(c.heap)] = List(c.elements)], Fresh(c.heap))

copy(h, v) ==
    CASE isNumber(h[v]) -> Number_copy(h, v)
      [] isString(h[v]) -> String_copy(h, v)
      [] isList(h[v]) -> List_copy(h, v)
      [] OTHER -> Function_copy(h, v)

\* The number of objects copy allocates for v.
RECURSIVE CopyCost(_, _)
RECURSIVE CopyCostFrom(_, _, _)
CopyCostFrom(h, es, i) == IF i > Len(es) THEN 0 ELSE CopyCost(h, es[i]) + CopyCostFrom(h, es, i + 1)

CopyCost(h, v) == IF isList(h[v]) THEN 1 + CopyCostFrom(h, h[v].elements, 1) ELSE 1

\* ---- virtual dispatch on the receiver's variant
\* self->op(other): Number overrides every binary operation, String
\* overrides addedTo and multedBy, List and Function override none.
BinaryOps ==
    {"addedTo", "subbedBy", "multedBy", "divedBy", "comparisonEq", "comparisonNe",
     "comparisonLt", "comparisonGt", "comparisonLte", "comparisonGte", "andedBy", "oredBy",
     "powedBy"}

Binary(op, h, self, other) ==
    IF isNumber(h[self])
    THEN
        CASE op = "addedTo" -> Number_addedTo(h, self, other)
               [] op = "subbedBy" -> Number_subbedBy(h, self, other)
               [] op = "multedBy" -> Number_multedBy(h, self, other)
               [] op = "divedBy" -> Number_divedBy(h, self, other)
               [] op = "powedBy" -> Number_powedBy(h, self, other)
               [] op = "comparisonEq" -> Number_comparisonEq(h, self, other)
               [] op = "comparisonNe" -> Number_comparisonNe(h, self, other)
               [] op = "comparisonLt" -> Number_comparisonLt(h, self, other)
               [] op = "comparisonGt" -> Number_comparisonGt(h, self, other)
               [] op = "comparisonLte" -> Number_comparisonLte(h, self, other)
               [] op = "comparisonGte" -> Number_comparisonGte(h, self, other)
               [] op = "andedBy" -> Number_andedBy(h, self, other)
               [] OTHER -> Number_oredBy(h, self, other)
    ELSE IF isString(h[self]) /\ op = "addedTo" THEN String_addedTo(h, self, other)
    ELSE IF isString(h[self]) /\ op = "multedBy" THEN String_multedBy(h, self, other)
    ELSE Value_binary(h, self, other)

\* self->op(): notted, the narrowing conversions and copy.
UnaryOps == {"notted", "asNumber", "asString", "asList", "asFunction", "copy"}

Unary(op, h, self) ==
    CASE op = "notted" -> IF isNumber(h[self]) THEN Number_notted(h, self) ELSE Value_notted(h, self)
      [] op = "asNumber" -> IF isNumber(h[self]) THEN Number_asNumber(h, self) ELSE Value_asNumber(h, self)
      [] op = "asString" -> IF isString(h[self]) THEN String_asString(h, self) ELSE Value_asString(h, self)
      [] op = "asList" -> asList(h, self)
      [] op = "copy" -> copy(h, self)
      [] OTHER -> IF isFunction(h[self]) THEN Function_asFunction(h, self) ELSE Value_asFunction(h, self)

\* ---------------------------------------------------------------- Context
Names == {"x", "y"}

\* A Context: parent_ (0 is nullptr) and variables_ (0 is "no entry").
NoCtx == [alive |-> FALSE, parent |-> 0, variables |-> [n \in Names |-> 0]]

Context(p) == [alive |-> TRUE, parent |-> p, variables |-> [n \in Names |-> 0]]

CtxIds == 1..MaxCtx

\* Mutant: a name the parent already binds is assigned in the parent.
Context_setVariable_Outer(cs, c, name, value) ==
    IF cs[c].variables[name] = 0 /\ cs[c].parent # 0 /\ cs[cs[c].parent].variables[name] # 0
    THEN [cs EXCEPT ![cs[c].parent].variables[name] = value]
    ELSE [cs EXCEPT ![c].variables[name] = value]

\* Mutant: a name that is already bound keeps its first value.
Context_setVariable_KeepFirst(cs, c, name, value) ==
    IF cs[c].variables[name] # 0 THEN cs ELSE [cs EXCEPT ![c].variables[name] = value]

Context_setVariable(cs, c, name, value) == [cs EXCEPT ![c].variables[name] = value]

\* Mutant: the lookup stops at the direct parent.
Context_getVariable_OneLevel(cs, c, name) ==
    IF cs[c].variables[name] # 0
    THEN [ok |-> TRUE, err |-> "", ref |-> cs[c].variables[name]]
    ELSE IF cs[c].parent # 0 /\ cs[cs[c].parent].variables[name] # 0
    THEN [ok |-> TRUE, err |-> "", ref |-> cs[cs[c].parent].variables[name]]
    ELSE [ok |-> FALSE, err |-> "UndefinedVariable", ref |-> 0]

RECURSIVE Context_getVariable(_, _, _)
Context_getVariable(cs, c, name) ==
    IF cs[c].variables[name] # 0
    THEN [ok |-> TRUE, err |-> "", ref |-> cs[c].variables[name]]
    ELSE IF cs[c].parent # 0
    THEN Context_getVariable(cs, cs[c].parent, name)
    ELSE [ok |-> FALSE, err |-> "UndefinedVariable", ref |-> 0]

\* Mutant: only the local mapping is searched.
Context_hasVariable_Local(cs, c, name) == cs[c].variables[name] # 0

RECURSIVE Context_hasVariable(_, _, _)
Context_hasVariable(cs, c, name) ==
    IF cs[c].variables[name] # 0 THEN TRUE
    ELSE IF cs[c].parent # 0 THEN Context_hasVariable(cs, cs[c].parent, name)
    ELSE FALSE

FreshCtx(cs) == CHOOSE i \in CtxIds : ~cs[i].alive /\ \A j \in CtxIds : j < i => cs[j].alive

\* The number of Contexts a lookup of name from c visits: getVariable and
\* hasVariable both go on to parent_ while the name is not local.
RECURSIVE Context_visits(_, _, _)
Context_visits(cs, c, name) ==
    IF cs[c].variables[name] # 0 THEN 1
    ELSE IF cs[c].parent # 0 THEN 1 + Context_visits(cs, cs[c].parent, name)
    ELSE 1

\* Mutant: the receiver is also cut off from its own parent.
Context_createChild_Detach(cs, c) ==
    [cs EXCEPT ![FreshCtx(cs)] = Context(c), ![c].parent = 0]

\* Mutant: the child starts with a snapshot of the receiver's bindings.
Context_createChild_Snapshot(cs, c) ==
    [cs EXCEPT ![FreshCtx(cs)] = [Context(c) EXCEPT !.variables = cs[c].variables]]

\* make_shared<Context>(name, shared_from_this())
Context_createChild(cs, c) == [cs EXCEPT ![FreshCtx(cs)] = Context(c)]

\* --------------------------------------------------------------- Compiler
\* Compiler::Compiler(): level 0, no debug info, no paths, no libraries.
Compiler == [optimizationLevel |-> 0, debugInfo |-> FALSE, includePaths |-> <<>>,
             libraryPaths |-> <<>>, libraries |-> <<>>]

\* What the Compiler acts on: the files it writes, the commands it has
\* handed to std::system and the status the last one came back with.
NoOs == [files |-> [f \in {"out", "out.cpp"} |-> "absent"], cmds |-> <<>>, status |-> 0]

\* A placeholder: the same program for every source, naming the file.
generateCppCode(filename, source) == [ok |-> TRUE, err |-> "", generatedCode |-> "main " \o filename]

\* open tells whether the ofstream could be opened, write whether the text
\* then reached the file; only the former is looked at.
compileToSource(filename, source, outputFile, o, open, write) ==
    LET result == generateCppCode(filename, source)
    IN IF ~result.ok THEN [ok |-> FALSE, err |-> result.err, os |-> o]
       ELSE IF ~open THEN [ok |-> FALSE, err |-> "OpenFailed", os |-> o]
       ELSE [ok |-> TRUE, err |-> "",
             os |-> [o EXCEPT !.files[outputFile] = IF write THEN result.generatedCode ELSE "partial"]]

\* g++ with the options of c; status is what std::system returns.
buildExecutable(c, cppFile, outputFile, o, status) ==
    LET cmd == [O |-> IF c.optimizationLevel > 0 THEN c.optimizationLevel ELSE 0,
                g |-> c.debugInfo, I |-> c.includePaths, L |-> c.libraryPaths,
                input |-> cppFile, output |-> outputFile, l |-> c.libraries]
        ran == [o EXCEPT !.cmds = Append(@, cmd), !.status = status]
    IN IF status # 0 THEN [ok |-> FALSE, err |-> "BuildFailed", os |-> ran]
       ELSE [ok |-> TRUE, err |-> "", os |-> [ran EXCEPT !.files[outputFile] = "executable"]]

compileToExecutable(c, filename, source, outputFile, o, open, write, status) ==
    LET cppFile == outputFile \o ".cpp"
        result == compileToSource(filename, source, cppFile, o, open, write)
    IN IF ~result.ok THEN result
       ELSE buildExecutable(c, cppFile, outputFile, result.os, status)

\* ------------------------------------------------------------- the caller
\* The record of the last call: what was called, with what, and the outcome.
\* flag is the bool hasVariable or isTrue returns, text what toString returns.
NoCall == [op |-> "none", recv |-> 0, args |-> <<>>, index |-> 0, name |-> "",
           value |-> 0, ok |-> TRUE, err |-> "", ref |-> 0, flag |-> FALSE, text |-> <<>>]

Outcome(call, r) == [call EXCEPT !.ok = r.ok, !.err = r.err, !.ref = r.ref]

\* The caller lets go of the previous result when it makes the next call.
Released == Sweep(heap, ctxs, 0)

\* Inputs of the List operations.
Receivers == {4}

Indexes == (0 - (MaxLen + 1))..MaxLen

Elems == {1, 2}

\* Argument sequences of the builtins: any handle first, then Elems.
RECURSIVE SeqsUpTo(_, _)
SeqsUpTo(S, n) ==
    IF n = 0 THEN {<<>>}
    ELSE LET shorter == SeqsUpTo(S, n - 1)
         IN shorter \cup {Append(s, e) : s \in {t \in shorter : Len(t) = n - 1}, e \in S}

ArgSeqs == {<<>>} \cup {<<f>> \o rest : f \in Handles, rest \in SeqsUpTo(Elems, MaxArgs - 1)}

ListGetItem(l, index) ==
    /\ \E r \in {List_getItem(Released, l, index)} :
          /\ heap' = r.heap
          /\ last' = Outcome([NoCall EXCEPT !.op = "getItem", !.recv = l, !.index = index], r)
    /\ UNCHANGED <<ctxs, compiler, os>>

ListSetItem(l, index, value) ==
    /\ \E r \in {List_setItem(Released, l, index, value)} :
          /\ heap' = r.heap
          /\ last' = Outcome([NoCall EXCEPT !.op = "setItem", !.recv = l, !.index = index,
                                            !.value = value], r)
    /\ UNCHANGED <<ctxs, compiler, os>>

ListAppend(l, value) ==
    /\ Len(heap[l].elements) < MaxLen
    /\ heap' = List_append(Released, l, value)
    /\ last' = [NoCall EXCEPT !.op = "List_append", !.recv = l, !.value = value]
    /\ UNCHANGED <<ctxs, compiler, os>>

CallAppend(args) ==
    /\ Len(args) >= 1 => Len(heap[args[1]].elements) + Len(args) - 1 <= MaxLen
    /\ \E r \in {append(Released, args)} :
          /\ heap' = r.heap
          /\ last' = Outcome([NoCall EXCEPT !.op = "append", !.args = args], r)
    /\ UNCHANGED <<ctxs, compiler, os>>

CallLen(args) ==
    /\ \E r \in {len(Released, args)} :
          /\ heap' = r.heap
          /\ last' = Outcome([NoCall EXCEPT !.op = "len", !.args = args], r)
    /\ UNCHANGED <<ctxs, compiler, os>>

\* The caller's variables x and y are bound to the same List (4), which is
\* also the element of List 5.
InitList ==
    /\ heap = InitHeap
    /\ ctxs = [c \in CtxIds |-> IF c = 1 THEN [Context(0) EXCEPT !.variables = [n \in Names |-> 4]]
                                 ELSE NoCtx]
    /\ last = NoCall
    /\ compiler = Compiler
    /\ os = NoOs

NextList ==
    \/ \E l \in Receivers, i \in Indexes : ListGetItem(l, i)
    \/ \E l \in Receivers, i \in Indexes, v \in Elems : ListSetItem(l, i, v)
    \/ \E l \in Receivers, v \in Elems : ListAppend(l, v)
    \/ \E args \in ArgSeqs : CallAppend(args)
    \/ \E args \in ArgSeqs : CallLen(args)

SpecList == InitList /\ [][NextList]_vars

\* ------------------------------------------------------ the Context chain
\* What the caller binds: x to object 1 or 2, y to object 1.
Bindings == {<<"x", 1>>, <<"x", 2>>, <<"y", 1>>}

Alive == {c \in CtxIds : ctxs[c].alive}

CreateChild(c) ==
    /\ \E i \in CtxIds : ~ctxs[i].alive
    /\ ctxs' = Context_createChild(ctxs, c)
    /\ last' = [NoCall EXCEPT !.op = "createChild", !.recv = c, !.ref = FreshCtx(ctxs)]
    /\ UNCHANGED <<heap, compiler, os>>

SetVariable(c, name, value) ==
    /\ ctxs' = Context_setVariable(ctxs, c, name, value)
    /\ last' = [NoCall EXCEPT !.op = "setVariable", !.recv = c, !.name = name, !.value = value]
    /\ UNCHANGED <<heap, compiler, os>>

GetVariable(c, name) ==
    /\ last' = Outcome([NoCall EXCEPT !.op = "getVariable", !.recv = c, !.name = name],
                       Context_getVariable(ctxs, c, name))
    /\ UNCHANGED <<heap, ctxs, compiler, os>>

HasVariable(c, name) ==
    /\ last' = [NoCall EXCEPT !.op = "hasVariable", !.recv = c, !.name = name,
                              !.flag = Context_hasVariable(ctxs, c, name)]
    /\ UNCHANGED <<heap, ctxs, compiler, os>>

\* One root Context, nothing bound.
InitCtx ==
    /\ heap = InitHeap
    /\ ctxs = [c \in CtxIds |-> IF c = 1 THEN Context(0) ELSE NoCtx]
    /\ last = NoCall
    /\ compiler = Compiler
    /\ os = NoOs

NextCtx ==
    \/ \E c \in Alive : CreateChild(c)
    \/ \E c \in Alive, b \in Bindings : SetVariable(c, b[1], b[2])
    \/ \E c \in Alive, n \in Names : GetVariable(c, n)
    \/ \E c \in Alive, n \in Names : HasVariable(c, n)

SpecCtx == InitCtx /\ [][NextCtx]_vars

\* ------------------------------------------------------- several roots
\* make_shared<Context>(name): a Context without a parent.
CreateRoot ==
    /\ \E i \in CtxIds : ~ctxs[i].alive
    /\ ctxs' = [ctxs EXCEPT ![FreshCtx(ctxs)] = Context(0)]
    /\ last' = [NoCall EXCEPT !.op = "createRoot", !.ref = FreshCtx(ctxs)]
    /\ UNCHANGED <<heap, compiler, os>>

NextForest ==
    \/ CreateRoot
    \/ \E c \in Alive : CreateChild(c)
    \/ \E c \in Alive, b \in Bindings : SetVariable(c, b[1], b[2])

SpecForest == InitCtx /\ [][NextForest]_vars

\* ------------------------------------------------------------------- num
Texts == SeqsUpTo(Chars, MaxText)

CallNum(args) ==
    /\ \E r \in {num(Released, args)} :
          /\ heap' = r.heap
          /\ last' = Outcome([NoCall EXCEPT !.op = "num", !.args = args], r)
    /\ UNCHANGED <<ctxs, compiler, os>>

\* The caller's String (2) holds any text over Chars.
InitNum ==
    /\ \E t \in Texts : heap = [InitHeap EXCEPT ![2] = String(t)]
    /\ ctxs = [c \in CtxIds |-> IF c = 1 THEN Context(0) ELSE NoCtx]
    /\ last = NoCall
    /\ compiler = Compiler
    /\ os = NoOs

\* num reads its first argument only.
NumArgSeqs == {a \in ArgSeqs : Len(a) <= 1} \cup {<<2, 1>>}

NextNum == \E args \in NumArgSeqs : CallNum(args)

SpecNum == InitNum /\ [][NextNum]_vars

\* ------------------------------------------------------------------- pop
\* The index Numbers: whole and fractional, inside and outside the List.
IndexValues == {<<i, 1>> : i \in Indexes} \cup {<<3, 2>>, <<-1, 2>>, <<-5, 2>>}

PopArgSeqs == {a \in ArgSeqs : Len(a) <= 2} \cup {<<4, 1, 2>>}

CallPop(args) ==
    /\ \E r \in {pop(Released, args)} :
          /\ heap' = r.heap
          /\ last' = Outcome([NoCall EXCEPT !.op = "pop", !.args = args], r)
    /\ UNCHANGED <<ctxs, compiler, os>>

\* The caller's Number (1) is any index value and its List (4) any List of
\* the Number and the String.
InitPop ==
    /\ \E v \in IndexValues, es \in SeqsUpTo(Elems, MaxLen) :
          heap = [InitHeap EXCEPT ![1] = Number(v), ![4] = List(es)]
    /\ ctxs = [c \in CtxIds |-> IF c = 1 THEN Context(0) ELSE NoCtx]
    /\ last = NoCall
    /\ compiler = Compiler
    /\ os = NoOs

NextPop == \E args \in PopArgSeqs : CallPop(args)

SpecPop == InitPop /\ [][NextPop]_vars

\* ------------------------------------------------- the Value operations
\* Operand values: the caller builds the operands, then evaluates one
\* operation on them.
NumValues == {Zero, <<3, 1>>, <<5, 2>>, <<-3, 2>>, <<-1, 1>>}

\* Object 5 is a second Number or a List holding List 4.
InitValue ==
    /\ \E a \in NumValues, t \in {<<>>, <<"a", "b">>}, es \in {<<>>, <<1>>, <<2, 1>>},
          o \in {Number(b) : b \in NumValues} \cup {List(<<4>>)} :
          heap = [InitHeap EXCEPT ![1] = Number(a), ![2] = String(t), ![4] = List(es), ![5] = o]
    /\ ctxs = [c \in CtxIds |-> IF c = 1 THEN Context(0) ELSE NoCtx]
    /\ last = NoCall
    /\ compiler = Compiler
    /\ os = NoOs

\* No operation has been evaluated yet.
Idle == last.op = "none"

\* self->op(other)
CallBinary(op, self, other) ==
    /\ Idle
    /\ \E r \in {Binary(op, heap, self, other)} :
          /\ heap' = r.heap
          /\ last' = Outcome([NoCall EXCEPT !.op = op, !.recv = self, !.value = other], r)
    /\ UNCHANGED <<ctxs, compiler, os>>

\* self->op()
CallUnary(op, self) ==
    /\ Idle
    /\ \E r \in {Unary(op, heap, self)} :
          /\ heap' = r.heap
          /\ last' = Outcome([NoCall EXCEPT !.op = op, !.recv = self], r)
    /\ UNCHANGED <<ctxs, compiler, os>>

\* self->isTrue() and self->toString(): the answer is a bool or a text.
QueryOps == {"isTrue", "toString"}

CallQuery(op, self) ==
    /\ Idle
    /\ last' = [NoCall EXCEPT !.op = op, !.recv = self,
                              !.flag = (op = "isTrue" /\ isTrue(heap[self])),
                              !.text = IF op = "toString" THEN toString(heap, self) ELSE <<>>]
    /\ UNCHANGED <<heap, ctxs, compiler, os>>

NextValue ==
    \/ \E op \in BinaryOps, self \in Handles, other \in Handles : CallBinary(op, self, other)
    \/ \E op \in UnaryOps, self \in Handles : CallUnary(op, self)
    \/ \E op \in QueryOps, self \in Handles : CallQuery(op, self)
    \/ \E l \in {4, 5}, i \in Indexes : Idle /\ ListGetItem(l, i)
    \/ \E l \in Receivers, v \in Elems : Idle /\ ListAppend(l, v)

SpecValue == InitValue /\ [][NextValue]_vars

\* ------------------------------------------------------------------ copy
\* The caller runs y = v; x = y.copy() once, and then changes Lists.
FreeCount(h) == Cardinality({i \in Ids : h[i] = NoObj})

\* What the caller changes afterwards: it appends object 1 and overwrites
\* the first element with object 2.

LiveLists == {i \in Ids : isList(Released[i])}

CopyValue(v) ==
    /\ ctxs[1].variables["x"] = 0
    /\ CopyCost(Released, v) <= FreeCount(Released)
    /\ \E r \in {copy(Released, v)} :
          /\ heap' = r.heap
          /\ ctxs' = Context_setVariable(Context_setVariable(ctxs, 1, "y", v), 1, "x", r.ref)
          /\ last' = Outcome([NoCall EXCEPT !.op = "copy", !.recv = v], r)
    /\ UNCHANGED <<compiler, os>>

Copied == ctxs[1].variables["x"] # 0

SetItemLater(l, index, value) == Copied /\ ListSetItem(l, index, value)

AppendLater(l, value) == Copied /\ ListAppend(l, value)

InitCopy ==
    /\ \E es \in {<<>>, <<1>>, <<2, 1>>} : heap = [InitHeap EXCEPT ![4] = List(es)]
    /\ ctxs = [c \in CtxIds |-> IF c = 1 THEN Context(0) ELSE NoCtx]
    /\ last = NoCall
    /\ compiler = Compiler
    /\ os = NoOs

NextCopy ==
    \/ \E v \in {4, 5} : CopyValue(v)
    \/ \E l \in LiveLists : SetItemLater(l, 0, 2)
    \/ \E l \in LiveLists : AppendLater(l, 1)

SpecCopy == InitCopy /\ [][NextCopy]_vars

\* ---------------------------------------------------------- Function.call
\* The callables a Function wraps here are the natives len, pop and num;
\* the Function's name tells which one it was created with.
Natives == {"len", "pop", "num"}

NativeFunction(name, h, args) ==
    CASE name = "len" -> len(h, args)
      [] name = "pop" -> pop(h, args)
      [] OTHER -> num(h, args)

\* Mutant: call checks that there is an argument.
Function_call_Checked(h, f, args) ==
    IF Len(args) = 0 THEN Fail(h, "ArityOrType") ELSE NativeFunction(h[f].name, h, args)

\* return function_(args)
Function_call(h, f, args) == NativeFunction(h[f].name, h, args)

CallFunction(f, args) ==
    /\ \E r \in {Function_call(Released, f, args)} :
          /\ heap' = r.heap
          /\ last' = Outcome([NoCall EXCEPT !.op = "call", !.recv = f, !.args = args], r)
    /\ UNCHANGED <<ctxs, compiler, os>>

\* Object 3 is a Function wrapping one of the natives.
InitCall ==
    /\ \E n \in Natives, v \in IndexValues, es \in SeqsUpTo(Elems, MaxLen) :
          heap = [InitHeap EXCEPT ![1] = Number(v), ![3] = Function(n), ![4] = List(es)]
    /\ ctxs = [c \in CtxIds |-> IF c = 1 THEN Context(0) ELSE NoCtx]
    /\ last = NoCall
    /\ compiler = Compiler
    /\ os = NoOs

NextCall == \E args \in PopArgSeqs : CallFunction(3, args)

SpecCall == InitCall /\ [][NextCall]_vars

\* ----------------------------------------------------------- the compiler
\* As compiler_main does: configure the Compiler, then compile once.
Configuring == last.op \notin {"compileToSource", "compileToExecutable"}

SetOptimizationLevel(level) ==
    /\ Configuring
    /\ compiler' = [compiler EXCEPT !.optimizationLevel = level]
    /\ last' = [NoCall EXCEPT !.op = "setOptimizationLevel", !.index = level]
    /\ UNCHANGED <<heap, ctxs, os>>

EnableDebugInfo(enable) ==
    /\ Configuring
    /\ compiler' = [compiler EXCEPT !.debugInfo = enable]
    /\ last' = [NoCall EXCEPT !.op = "enableDebugInfo", !.flag = enable]
    /\ UNCHANGED <<heap, ctxs, os>>

\* addIncludePath, addLibraryPath and addLibrary: push_back on one of the
\* three vectors.
AddPath(field, path) ==
    /\ Configuring
    /\ Len(compiler[field]) < MaxPaths
    /\ compiler' = [compiler EXCEPT ![field] = Append(@, path)]
    /\ last' = [NoCall EXCEPT !.op = "add", !.name = field]
    /\ UNCHANGED <<heap, ctxs, os>>

CompileToSource(open, write) ==
    /\ Configuring
    /\ \E r \in {compileToSource("in", "source", "out.cpp", os, open, write)} :
          /\ os' = r.os
          /\ last' = [NoCall EXCEPT !.op = "compileToSource", !.ok = r.ok, !.err = r.err]
    /\ UNCHANGED <<heap, ctxs, compiler>>

CompileToExecutable(open, write, status) ==
    /\ Configuring
    /\ \E r \in {compileToExecutable(compiler, "in", "source", "out", os, open, write, status)} :
          /\ os' = r.os
          /\ last' = [NoCall EXCEPT !.op = "compileToExecutable", !.ok = r.ok, !.err = r.err]
    /\ UNCHANGED <<heap, ctxs, compiler>>

InitCompile ==
    /\ heap = InitHeap
    /\ ctxs = [c \in CtxIds |-> IF c = 1 THEN Context(0) ELSE NoCtx]
    /\ last = NoCall
    /\ compiler = Compiler
    /\ os = NoOs

NextCompile ==
    \/ \E level \in {-1, 0, 2} : SetOptimizationLevel(level)
    \/ \E enable \in BOOLEAN : EnableDebugInfo(enable)
    \/ \E field \in {"includePaths", "libraryPaths", "libraries"} : AddPath(field, "p")
    \/ \E open \in BOOLEAN, write \in BOOLEAN : CompileToSource(open, write)
    \/ \E open \in BOOLEAN, write \in BOOLEAN, status \in {0, 1} : CompileToExecutable(open, write, status)

SpecCompile == InitCompile /\ [][NextCompile]_vars

\* ================================================================ claims
\* The List that argument 1 of the last call held, before and after the call.
Before(l) == heap[l].elements

After(l) == heap'[l].elements

\* Every Context binding of List l.
BindingsOf(l) == {<<c, n>> \in CtxIds \X Names : ctxs[c].alive /\ ctxs[c].variables[n] = l}

\* C1: after a successful builtin append(list, v1..vn), the List passed as
\* argument 1 holds, for the caller's handle and for every variable bound to
\* it, its old elements followed by v1..vn, and is n longer.
C1_AppendMutatesInPlace ==
    [][(last'.op = "append" /\ last'.ok) =>
          LET l == last'.args[1]
              vs == Tail(last'.args)
          IN /\ After(l) = Before(l) \o vs
             /\ Len(After(l)) = Len(Before(l)) + Len(vs)
             /\ \A b \in BindingsOf(l) :
                   heap'[ctxs'[b[1]].variables[b[2]]].elements = Before(l) \o vs]_vars

\* C2: builtin append returns the very List it was given as argument 1; with
\* fewer than 2 arguments or a first argument that is no List it fails with
\* ArityOrType and changes no List.
C2_AppendReturnsSameList ==
    [][last'.op = "append" =>
          IF Len(last'.args) >= 2 /\ isList(heap[last'.args[1]])
          THEN last'.ok /\ last'.ref = last'.args[1]
          ELSE /\ ~last'.ok
               /\ last'.err = "ArityOrType"
               /\ \A l \in Handles : heap'[l] = heap[l]]_vars

\* C6: getItem(index) on a List of length n reads position index, or
\* index + n when index is negative, and fails with IndexOutOfRange when that
\* position is outside [0, n): with n = 3, getItem(-1) is the last element and
\* getItem(3), getItem(-4) fail; on an empty List every index fails.
C6_GetItem ==
    [][last'.op = "getItem" =>
          LET es == Before(last'.recv)
              n == Len(es)
              i == last'.index
              pos == IF i < 0 THEN i + n ELSE i
          IN /\ IF 0 <= pos /\ pos < n
                THEN last'.ok /\ last'.ref = es[pos + 1]
                ELSE ~last'.ok /\ last'.err = "IndexOutOfRange"
             /\ (n = 3 /\ i = -1) => (last'.ok /\ last'.ref = es[3])
             /\ (n = 3 /\ i \in {3, -4}) => ~last'.ok
             /\ n = 0 => ~last'.ok
             /\ After(last'.recv) = es]_vars

C6_Witness ==
    /\ last.op = "getItem" /\ last.index = -1 /\ last.ok
    /\ heap[last.recv].elements = <<1, 1, 2>>
    /\ last.ref = 2

\* C7: setItem(index, value) normalizes the index as getItem does; in range
\* it replaces that one element and keeps the length and all other elements;
\* out of range it fails with IndexOutOfRange and the List is unchanged.
C7_SetItem ==
    [][last'.op = "setItem" =>
          LET l == last'.recv
              es == Before(l)
              n == Len(es)
              i == last'.index
              pos == IF i < 0 THEN i + n ELSE i
          IN /\ IF 0 <= pos /\ pos < n
                THEN /\ last'.ok
                     /\ Len(After(l)) = n
                     /\ After(l)[pos + 1] = last'.value
                     /\ \A k \in 1..n : k # pos + 1 => After(l)[k] = es[k]
                ELSE /\ ~last'.ok
                     /\ last'.err = "IndexOutOfRange"
                     /\ After(l) = es
             /\ \A m \in Handles \ {l} : heap'[m] = heap[m]]_vars

C7_Witness ==
    /\ last.op = "setItem" /\ last.index = -2 /\ last.value = 2 /\ last.ok
    /\ heap[last.recv].elements = <<1, 2, 1>>

\* C8: List.append(value) grows the List by one in place: value is the new
\* last element, the earlier elements stay, every Context binding of the List
\* and every List holding it as an element sees the new element, and value
\* is stored as the same object (nothing is allocated, value is unchanged).
C8_ListAppend ==
    [][last'.op = "List_append" =>
          LET l == last'.recv
              v == last'.value
              es == Before(l)
          IN /\ Len(After(l)) = Len(es) + 1
             /\ After(l)[Len(es) + 1] = v
             /\ \A k \in 1..Len(es) : After(l)[k] = es[k]
             /\ \A b \in BindingsOf(l) :
                   heap'[ctxs'[b[1]].variables[b[2]]].elements = Append(es, v)
             /\ \A m \in Handles \ {l} : \A k \in 1..Len(heap[m].elements) :
                   heap[m].elements[k] = l =>
                      heap'[heap'[m].elements[k]].elements = Append(es, v)
             /\ heap'[v] = heap[v]
             /\ \A i \in Ids : heap[i].type = "None" => heap'[i].type = "None"]_vars

C8_Witness ==
    /\ last.op = "List_append" /\ last.recv = 4 /\ last.value = 2
    /\ Cardinality({b \in CtxIds \X Names : ctxs[b[1]].alive /\ ctxs[b[1]].variables[b[2]] = 4}) = 2
    /\ heap[5].elements = <<4>>
    /\ heap[heap[5].elements[1]].elements = <<1, 2>>

\* The count len reports for object o: elements of a List, characters of a
\* String.
CountOf(o) == IF isList(o) THEN Len(o.elements) ELSE Len(o.text)

\* C9 as stated: len succeeds exactly when it is given exactly one argument,
\* a List or a String, returning its count as a Number; otherwise it fails
\* with ArityOrType.
C9_LenExactlyOne ==
    [][last'.op = "len" =>
          IF Len(last'.args) = 1 /\ heap[last'.args[1]].type \in {"List", "String"}
          THEN /\ last'.ok
               /\ isNumber(heap'[last'.ref])
               /\ heap'[last'.ref].number = <<CountOf(heap[last'.args[1]]), 1>>
          ELSE ~last'.ok /\ last'.err = "ArityOrType"]_vars

\* C9 amended: len succeeds exactly when it is given at least one argument
\* and the first is a List or a String, returning the first argument's count
\* as a Number (further arguments are ignored); with no argument, or a first
\* argument that is a Number or a Function, it fails with ArityOrType.
C9_LenFirstArgument ==
    [][last'.op = "len" =>
          IF Len(last'.args) >= 1 /\ heap[last'.args[1]].type \in {"List", "String"}
          THEN /\ last'.ok
               /\ isNumber(heap'[last'.ref])
               /\ heap'[last'.ref].number = <<CountOf(heap[last'.args[1]]), 1>>
               /\ \A l \in Handles : heap'[l] = heap[l]
          ELSE ~last'.ok /\ last'.err = "ArityOrType"]_vars

C9_Witness ==
    /\ last.op = "len" /\ last.args = <<2, 1>> /\ last.ok
    /\ heap[last.ref] = Number(<<2, 1>>)

\* The Context k steps up the parent chain of c (0 past the root).
RECURSIVE AncK(_, _, _)
AncK(cs, c, k) ==
    IF k = 0 THEN c
    ELSE LET p == AncK(cs, c, k - 1) IN IF p = 0 THEN 0 ELSE cs[p].parent

Ancestors(cs, c) == {AncK(cs, c, k) : k \in 1..MaxCtx} \ {0}

\* The distances from c at which a Context of its chain binds name.
Binders(cs, c, name) ==
    {k \in 0..MaxCtx : AncK(cs, c, k) # 0 /\ cs[AncK(cs, c, k)].variables[name] # 0}

Nearest(cs, c, name) ==
    AncK(cs, c, CHOOSE k \in Binders(cs, c, name) : \A j \in Binders(cs, c, name) : k <= j)

\* C3: a setVariable on a Context changes no binding of any of its ancestors;
\* when the parent binds x = 1 and the child then binds x = 2, the child's
\* getVariable(x) is 2 and the parent's is still 1.
C3_Shadowing ==
    [][last'.op = "setVariable" =>
          LET c == last'.recv
          IN /\ \A a \in Ancestors(ctxs, c) : ctxs'[a] = ctxs[a]
             /\ \A a \in Ancestors(ctxs, c) : \A n \in Names :
                   Context_getVariable(ctxs', a, n) = Context_getVariable(ctxs, a, n)
             /\ ( /\ ctxs[c].parent # 0
                  /\ ctxs[ctxs[c].parent].variables["x"] = 1
                  /\ last'.name = "x" /\ last'.value = 2 )
                => /\ Context_getVariable(ctxs', c, "x").ref = 2
                   /\ Context_getVariable(ctxs', ctxs[c].parent, "x").ref = 1]_vars

C3_Witness ==
    /\ last.op = "setVariable" /\ last.name = "x" /\ last.value = 2
    /\ ctxs[last.recv].parent # 0
    /\ ctxs[ctxs[last.recv].parent].parent = 0
    /\ ctxs[ctxs[last.recv].parent].variables["x"] = 1
    /\ ctxs[last.recv].variables["x"] = 2

\* C4: getVariable(name) returns the binding of the nearest Context of the
\* chain (itself, parent, grandparent, ...) that binds name, and fails with
\* UndefinedVariable exactly when none does; it never yields a default.
C4_GetVariable ==
    [][last'.op = "getVariable" =>
          LET c == last'.recv
              n == last'.name
          IN /\ IF Binders(ctxs, c, n) = {}
                THEN ~last'.ok /\ last'.err = "UndefinedVariable" /\ last'.ref = 0
                ELSE /\ last'.ok
                     /\ last'.ref = ctxs[Nearest(ctxs, c, n)].variables[n]
                     /\ last'.ref # 0
             /\ ctxs' = ctxs]_vars

C4_Witness ==
    /\ last.op = "getVariable" /\ last.ok /\ last.name = "x" /\ last.ref = 2
    /\ ctxs[last.recv].variables["x"] = 0
    /\ ctxs[last.recv].parent # 0
    /\ ctxs[ctxs[last.recv].parent].variables["x"] = 0
    /\ ctxs[ctxs[last.recv].parent].parent # 0
    /\ ctxs[ctxs[ctxs[last.recv].parent].parent].variables["x"] = 2

\* C5: hasVariable(name) never fails, and on every Context of every reachable
\* chain it is true exactly when getVariable(name) succeeds and false exactly
\* when getVariable fails with UndefinedVariable.
C5_HasVariable ==
    /\ \A c \in Alive : \A n \in Names :
          LET got == Context_getVariable(ctxs, c, n)
          IN /\ Context_hasVariable(ctxs, c, n) = got.ok
             /\ ~got.ok => got.err = "UndefinedVariable"
    /\ last.op = "hasVariable" =>
          /\ last.ok
          /\ last.flag = Context_getVariable(ctxs, last.recv, last.name).ok

C5_Witness ==
    /\ last.op = "hasVariable" /\ last.flag
    /\ ctxs[last.recv].variables[last.name] = 0
    /\ \E c \in Alive : ~Context_hasVariable(ctxs, c, last.name)

\* A text that is, as a whole, a decimal numeral: an optional sign, then
\* digits with at most one '.', at least one digit, and nothing else.  White
\* space around the numeral is allowed, the reading kindest to the code.
RECURSIVE Trim(_)
Trim(t) ==
    IF t = <<>> THEN t
    ELSE IF Head(t) = " " THEN Trim(Tail(t))
    ELSE IF t[Len(t)] = " " THEN Trim(SubSeq(t, 1, Len(t) - 1))
    ELSE t

IsNumeral(t) ==
    LET body == IF Trim(t) # <<>> /\ Trim(t)[1] = "-" THEN Tail(Trim(t)) ELSE Trim(t)
    IN /\ \E i \in 1..Len(body) : body[i] \in Digits
       /\ \A i \in 1..Len(body) : body[i] \in Digits \cup {"."}
       /\ Cardinality({i \in 1..Len(body) : body[i] = "."}) <= 1

\* C10: num of a String succeeds only when the whole text is a valid
\* numeral, and fails with ParseError for every other text: the empty text,
\* and a numeral followed by other characters.
C10_NumParsesFullText ==
    (last.op = "num" /\ Len(last.args) >= 1 /\ isString(heap[last.args[1]])) =>
        IF IsNumeral(heap[last.args[1]].text)
        THEN last.ok /\ isNumber(heap[last.ref])
        ELSE ~last.ok /\ last.err = "ParseError"

\* The index pop uses: the second argument cut to an integer when it is a
\* Number, else -1.
PopIndex(args) ==
    IF Len(args) > 1 /\ isNumber(heap[args[2]])
    THEN LET v == heap[args[2]].number
         IN IF v[1] >= 0 THEN v[1] \div v[2] ELSE 0 - ((0 - v[1]) \div v[2])
    ELSE -1

\* The position (from 0) that index selects in a List of length n.
PopPosition(args) ==
    LET n == Len(heap[args[1]].elements)
        i == PopIndex(args)
    IN IF i < 0 THEN i + n ELSE i

PopInRange(args) ==
    /\ 0 <= PopPosition(args)
    /\ PopPosition(args) < Len(heap[args[1]].elements)

\* C11: pop(list[, index]) on a non-empty List returns the element the index
\* selects (the last one without a Number index) and removes nothing: the
\* List is as before, and the same call again returns the same element.
C11_PopKeepsList ==
    [][last'.op = "pop" =>
          /\ \A l \in Handles : heap'[l] = heap[l]
          /\ last'.ok =>
                /\ last'.ref = Before(last'.args[1])[PopPosition(last'.args) + 1]
                /\ Len(last'.args) = 1 => last'.ref = Before(last'.args[1])[Len(Before(last'.args[1]))]
          /\ (last.op = "pop" /\ last.args = last'.args) =>
                (last'.ok = last.ok /\ last'.ref = last.ref)]_vars

C11_Witness ==
    /\ last.op = "pop" /\ last.ok /\ last.args = <<4, 1>>
    /\ heap[1].number = <<-5, 2>>
    /\ heap[4].elements = <<2, 1, 1>>
    /\ last.ref = 1

\* C12: pop fails, changing no List, with no argument, with a first argument
\* that is no List, on an empty List, and (IndexOutOfRange) with a Number
\* index outside the List after normalization; otherwise it succeeds.
C12_PopFailures ==
    [][last'.op = "pop" =>
          LET args == last'.args
          IN /\ IF Len(args) = 0 \/ ~isList(heap[args[1]]) \/ heap[args[1]].elements = <<>>
                THEN ~last'.ok
                ELSE IF ~PopInRange(args)
                THEN ~last'.ok /\ last'.err = "IndexOutOfRange" /\ isNumber(heap[args[2]])
                ELSE last'.ok
             /\ ~last'.ok => \A l \in Handles : heap'[l] = heap[l]]_vars

C12_Witness ==
    /\ last.op = "pop" /\ ~last.ok /\ last.err = "IndexOutOfRange"
    /\ last.args = <<4, 1>>
    /\ heap[1].number = <<-4, 1>>
    /\ Len(heap[4].elements) = 3


\* ---------------------------------------------------------------- C13..C19
\* The operands of the call are as they were before it.
OperandsKept == \A i \in Handles : heap'[i] = heap[i]

\* The result of the call is an object that did not exist before it.
ResultIsNew == heap[last'.ref] = NoObj /\ heap'[last'.ref] # NoObj

\* C13: a.divedBy(other) for a Number a fails with DivisionByZero when other
\* is Number(0), returns a new Number holding a / b when other is a Number
\* b # 0, and fails with UnsupportedOperation when other is not a Number; the
\* operands are unchanged in every case.
C13_DivedBy ==
    [][(last'.op = "divedBy" /\ isNumber(heap[last'.recv])) =>
        LET a == heap[last'.recv].number
            o == heap[last'.value]
        IN /\ (isNumber(o) /\ o.number = Zero) => (~last'.ok /\ last'.err = "DivisionByZero")
           /\ (isNumber(o) /\ o.number # Zero) =>
                 /\ last'.ok
                 /\ ResultIsNew
                 /\ isNumber(heap'[last'.ref])
                 /\ LET q == heap'[last'.ref].number
                    IN q[1] * o.number[1] * a[2] = a[1] * q[2] * o.number[2]
           /\ ~isNumber(o) => (~last'.ok /\ last'.err = "UnsupportedOperation")
           /\ OperandsKept]_vars

\* (5/2) / (-3/2) = -5/3
C13_Witness ==
    /\ last.op = "divedBy" /\ last.ok
    /\ heap[last.recv].number = <<5, 2>> /\ heap[last.value].number = <<-3, 2>>
    /\ heap[last.ref] = Number(<<-5, 3>>)


\* The integers no larger in magnitude than the numerator of v.
Around(v) == IF v[1] >= 0 THEN (0 - v[1])..v[1] ELSE v[1]..(0 - v[1])

\* v with its fraction dropped: the integer nearest to v between 0 and v.
TowardZero(v) ==
    CHOOSE k \in Around(v) :
        IF v[1] >= 0 THEN k * v[2] <= v[1] /\ v[1] < (k + 1) * v[2]
        ELSE k * v[2] >= v[1] /\ v[1] > (k - 1) * v[2]

\* The largest integer not above v.
FloorOf(v) == CHOOSE k \in Around(v) : k * v[2] <= v[1] /\ v[1] < (k + 1) * v[2]

\* t written k times in a row; nothing for k <= 0.
Repeated(t, k) == [i \in 1..(IF k > 0 THEN k * Len(t) ELSE 0) |-> t[((i - 1) % Len(t)) + 1]]

\* C14: n.multedBy(s) for a Number n and a String s returns a new String, s
\* repeated k times with k = n truncated toward zero (empty for k <= 0);
\* with a List or Function operand it fails with UnsupportedOperation.
C14_NumberTimesString ==
    [][(last'.op = "multedBy" /\ isNumber(heap[last'.recv])) =>
        LET n == heap[last'.recv].number
            o == heap[last'.value]
        IN /\ isString(o) =>
                 /\ last'.ok
                 /\ ResultIsNew
                 /\ heap'[last'.ref] = String(Repeated(o.text, TowardZero(n)))
                 /\ (n = <<3, 1>> /\ o.text = <<"a", "b">>) =>
                        heap'[last'.ref].text = <<"a", "b", "a", "b", "a", "b">>
                 /\ n = Zero => heap'[last'.ref].text = <<>>
           /\ (isList(o) \/ isFunction(o)) =>
                 (~last'.ok /\ last'.err = "UnsupportedOperation")]_vars

\* Number(5/2) times "ab" is "abab".
C14_Witness ==
    /\ last.op = "multedBy" /\ last.ok
    /\ heap[last.recv] = Number(<<5, 2>>) /\ heap[last.value] = String(<<"a", "b">>)
    /\ heap[last.ref] = String(<<"a", "b", "a", "b">>)

\* C15: s.multedBy(n) for a String s and a Number n returns s's text
\* repeated floor(n) times (empty for a count <= 0), the same String that
\* n.multedBy(s) returns; with a non-Number operand it fails with
\* UnsupportedOperation.
C15_StringTimesNumber ==
    [][(last'.op = "multedBy" /\ isString(heap[last'.recv])) =>
        LET s == heap[last'.recv]
            o == heap[last'.value]
        IN /\ isNumber(o) =>
                 /\ last'.ok
                 /\ heap'[last'.ref] = String(Repeated(s.text, FloorOf(o.number)))
                 /\ \E r \in {Number_multedBy(heap, last'.value, last'.recv)} :
                        r.ok /\ r.heap[r.ref] = heap'[last'.ref]
           /\ ~isNumber(o) => (~last'.ok /\ last'.err = "UnsupportedOperation")]_vars

\* "ab" times Number(-3/2) is "": floor is -2, the cast gives -1.
C15_Witness ==
    /\ last.op = "multedBy" /\ last.ok
    /\ heap[last.recv] = String(<<"a", "b">>) /\ heap[last.value] = Number(<<-3, 2>>)
    /\ heap[last.ref] = String(<<>>)


\* C16: s.addedTo(other) for a String s never fails: with a String operand
\* the result is the two texts concatenated, with a Number, List or
\* Function operand it is s's text followed by other.toString(); the result
\* is a new String and the operands are unchanged.
C16_StringAddedTo ==
    [][(last'.op = "addedTo" /\ isString(heap[last'.recv])) =>
        LET s == heap[last'.recv]
            o == heap[last'.value]
        IN /\ last'.ok
           /\ ResultIsNew
           /\ isString(heap'[last'.ref])
           /\ isString(o) => heap'[last'.ref].text = s.text \o o.text
           /\ ~isString(o) => heap'[last'.ref].text = s.text \o toString(heap, last'.value)
           /\ OperandsKept]_vars

\* "ab" + [4] with 4 = ["ab", 2.5] is "ab[[ab, 2.500000]]".
C16_Witness ==
    /\ last.op = "addedTo" /\ last.ok
    /\ heap[last.recv] = String(<<"a", "b">>)
    /\ heap[last.value] = List(<<4>>) /\ heap[4] = List(<<2, 1>>) /\ heap[1] = Number(<<5, 2>>)
    /\ heap[last.ref].text = <<"a", "b", "[", "[", "a", "b", ",", " ", "2", ".", "5", "0", "0", "0", "0", "0", "]", "]">>


\* The numeric relation each comparison stands for, on fractions.
Holds(op, a, b) ==
    CASE op = "comparisonEq" -> a[1] * b[2] = b[1] * a[2]
      [] op = "comparisonNe" -> a[1] * b[2] # b[1] * a[2]
      [] op = "comparisonLt" -> a[1] * b[2] < b[1] * a[2]
      [] op = "comparisonGt" -> a[1] * b[2] > b[1] * a[2]
      [] op = "comparisonLte" -> a[1] * b[2] <= b[1] * a[2]
      [] OTHER -> a[1] * b[2] >= b[1] * a[2]

Comparisons ==
    {"comparisonEq", "comparisonNe", "comparisonLt", "comparisonGt", "comparisonLte", "comparisonGte"}

One == <<1, 1>>

\* C17: for a Number receiver, against a non-Number comparisonEq returns 0
\* and comparisonNe returns 1 while Lt/Gt/Lte/Gte fail with
\* UnsupportedOperation; against a Number all six return 1 or 0 according
\* to the numeric relation; comparisonNe is the negation of comparisonEq.
C17_Comparisons ==
    [][(last'.op \in Comparisons /\ isNumber(heap[last'.recv])) =>
        LET a == heap[last'.recv].number
            o == heap[last'.value]
        IN /\ isNumber(o) =>
                 /\ last'.ok
                 /\ heap'[last'.ref] = Number(IF Holds(last'.op, a, o.number) THEN One ELSE Zero)
           /\ (~isNumber(o) /\ last'.op = "comparisonEq") =>
                 (last'.ok /\ heap'[last'.ref] = Number(Zero))
           /\ (~isNumber(o) /\ last'.op = "comparisonNe") =>
                 (last'.ok /\ heap'[last'.ref] = Number(One))
           /\ (~isNumber(o) /\ last'.op \notin {"comparisonEq", "comparisonNe"}) =>
                 (~last'.ok /\ last'.err = "UnsupportedOperation")
           /\ last'.op = "comparisonNe" =>
                 \E r \in {Number_comparisonEq(heap, last'.recv, last'.value)} :
                     /\ r.ok
                     /\ heap'[last'.ref].number = (IF r.heap[r.ref].number = Zero THEN One ELSE Zero)]_vars

\* -3/2 < 5/2
C17_Witness ==
    /\ last.op = "comparisonLt" /\ last.ok
    /\ heap[last.recv] = Number(<<-3, 2>>) /\ heap[last.value] = Number(<<5, 2>>)
    /\ heap[last.ref] = Number(One)

\* What counts as true, by variant.
Truthy(o) ==
    \/ isNumber(o) /\ o.number # Zero
    \/ isString(o) /\ Len(o.text) > 0
    \/ isList(o) /\ Len(o.elements) > 0
    \/ isFunction(o)

\* C18: andedBy, oredBy and notted of a Number receiver never fail, for any
\* operand variant; the result is Number 1 or 0, from the truthiness of the
\* receiver and (and/or) of the operand.
C18_Logical ==
    [][(last'.op \in {"andedBy", "oredBy", "notted"} /\ isNumber(heap[last'.recv])) =>
        LET a == heap[last'.recv]
        IN /\ last'.ok
           /\ heap'[last'.ref] \in {Number(Zero), Number(One)}
           /\ last'.op = "andedBy" =>
                 (heap'[last'.ref].number = One <=> (Truthy(a) /\ Truthy(heap[last'.value])))
           /\ last'.op = "oredBy" =>
                 (heap'[last'.ref].number = One <=> (Truthy(a) \/ Truthy(heap[last'.value])))
           /\ last'.op = "notted" => (heap'[last'.ref].number = One <=> ~Truthy(a))]_vars

\* Number(3) and an empty List is 0.
C18_Witness ==
    /\ last.op = "andedBy" /\ last.ok
    /\ heap[last.recv] = Number(<<3, 1>>) /\ heap[last.value] = List(<<>>)
    /\ heap[last.ref] = Number(Zero)

\* How many of the four type predicates hold of o.
PredicatesTrue(o) ==
    Cardinality({p \in {"Number", "String", "List", "Function"} :
                    \/ p = "Number" /\ isNumber(o)
                    \/ p = "String" /\ isString(o)
                    \/ p = "List" /\ isList(o)
                    \/ p = "Function" /\ isFunction(o)})

\* The predicate that goes with each conversion.
Matching(op, o) ==
    CASE op = "asNumber" -> isNumber(o)
      [] op = "asString" -> isString(o)
      [] op = "asList" -> isList(o)
      [] OTHER -> isFunction(o)

\* C19: exactly one of isNumber/isString/isList/isFunction is true of every
\* Value; asNumber/asString/asList/asFunction succeeds exactly when the
\* matching predicate is true, returning a value with the receiver's
\* content, and fails with TypeMismatch otherwise.
C19_Narrowing ==
    [][/\ \A i \in Ids : heap'[i] # NoObj => PredicatesTrue(heap'[i]) = 1
       /\ last'.op \in {"asNumber", "asString", "asList", "asFunction"} =>
             /\ last'.ok <=> Matching(last'.op, heap[last'.recv])
             /\ last'.ok => heap'[last'.ref] = heap[last'.recv]
             /\ ~last'.ok => last'.err = "TypeMismatch"]_vars

\* asList of the List ["ab", 1] succeeds with the same elements.
C19_Witness ==
    /\ last.op = "asList" /\ last.ok
    /\ heap[last.recv] = List(<<2, 1>>) /\ heap[last.ref] = List(<<2, 1>>)
    /\ last.ref # last.recv


\* ---------------------------------------------------------------------- C20
\* The content of v as a value: Lists by the contents of their elements.
RECURSIVE Deep(_, _)
Deep(h, v) ==
    IF isList(h[v]) THEN [type |-> "List", items |-> [k \in 1..Len(h[v].elements) |-> Deep(h, h[v].elements[k])]]
    ELSE [type |-> h[v].type, items |-> <<h[v].number, h[v].text, h[v].name>>]

\* The objects reached from v through List elements, v included.
RECURSIVE Reach(_, _)
Reach(h, v) ==
    {v} \cup UNION {Reach(h, h[v].elements[k]) : k \in 1..Len(h[v].elements)}

\* The caller's original (y) and its copy (x).
Original == ctxs[1].variables["y"]

TheCopy == ctxs[1].variables["x"]

\* C20: copy returns a Value with content equal to the receiver's, and is
\* independent of it: a later append or setItem on a List reached through
\* the copy leaves the content of the original as it was, and one on a List
\* reached through the original leaves the content of the copy as it was.
C20_CopyIndependent ==
    [][/\ last'.op = "copy" =>
             /\ last'.ok
             /\ Deep(heap', last'.ref) = Deep(heap, last'.recv)
             /\ Deep(heap', last'.recv) = Deep(heap, last'.recv)
       /\ (last'.op \in {"setItem", "List_append"} /\ TheCopy # 0) =>
             /\ last'.recv \in Reach(heap, TheCopy) => Deep(heap', Original) = Deep(heap, Original)
             /\ last'.recv \in Reach(heap, Original) => Deep(heap', TheCopy) = Deep(heap, TheCopy)]_vars

\* The List nested in the copy has been appended to; the original's nested
\* List has not changed with it.
C20_Witness ==
    /\ last.op = "List_append"
    /\ TheCopy # 0
    /\ last.recv \in Reach(heap, TheCopy) \ {TheCopy}
    /\ Original = 5
    /\ Deep(heap, TheCopy) # Deep(heap, Original)
    /\ heap[4] = List(<<2, 1>>)


\* ---------------------------------------------------------------- C21..C24
\* The operations each variant overrides.
Supports(o, op) ==
    \/ isNumber(o)
    \/ isString(o) /\ op \in {"addedTo", "multedBy"}

\* C21: an arithmetic, comparison or logical operation on a receiver whose
\* variant does not support it fails with UnsupportedOperation: a String
\* supports only addedTo and multedBy, a List and a Function none; so
\* comparisonEq and comparisonNe on a String or List fail for every operand.
C21_Unsupported ==
    [][(last'.op \in BinaryOps \cup {"notted"} /\ ~Supports(heap[last'.recv], last'.op)) =>
        (~last'.ok /\ last'.err = "UnsupportedOperation")]_vars

\* "ab" == "ab" fails.
C21_Witness ==
    /\ last.op = "comparisonEq" /\ ~last.ok /\ last.err = "UnsupportedOperation"
    /\ heap[last.recv] = String(<<"a", "b">>) /\ last.value = last.recv


\* What the callable wrapped by Function f does with args, applied once.
Callable(f, args) ==
    IF heap[f].name = "len" THEN len(Released, args)
    ELSE IF heap[f].name = "pop" THEN pop(Released, args)
    ELSE num(Released, args)

\* C22: f.call(args) gives exactly the outcome of the wrapped callable
\* applied once to the same args: the same result or the same error, the
\* same objects afterwards; call adds no arity or type check of its own.
C22_FunctionCall ==
    [][last'.op = "call" =>
        \E r \in {Callable(last'.recv, last'.args)} :
            /\ last'.ok = r.ok
            /\ last'.err = r.err
            /\ last'.ref = r.ref
            /\ heap' = r.heap
            /\ \A i \in 1..Len(last'.args) : heap'[last'.args[i]] = heap[last'.args[i]]]_vars

\* call with no argument on the Function wrapping num succeeds with
\* Number(0), as num itself does.
C22_Witness ==
    /\ last.op = "call" /\ last.args = <<>> /\ heap[last.recv].name = "num"
    /\ last.ok /\ heap[last.ref] = Number(Zero)


\* The operations C23 calls pure.
PureOps == BinaryOps \cup {"notted", "copy", "toString", "isTrue", "getItem"}

\* C23: every Value operation other than List.setItem and List.append
\* leaves the receiver, the operand and every List as they were, whether it
\* succeeds or fails, and a successful one returns a Value.
C23_Pure ==
    [][last'.op \in PureOps =>
        /\ \A i \in Ids : heap[i] # NoObj => heap'[i] = heap[i]
        /\ (last'.ok /\ last'.op \notin {"toString", "isTrue"}) => heap'[last'.ref] # NoObj]_vars

\* The List [[“ab”, n]] has been copied.
C23_Witness ==
    /\ last.op = "copy" /\ last.ok /\ last.recv = 5
    /\ heap[5] = List(<<4>>) /\ heap[4] = List(<<2, 1>>)
    /\ last.ref \notin Handles

\* C24: isTrue is true for a Number exactly when it is nonzero, for a
\* String exactly when it is non-empty, for a List exactly when it has an
\* element, and always for a Function; the first append to an empty List
\* turns it from false to true.
C24_Truthiness ==
    [][/\ last'.op = "isTrue" => (last'.flag <=> Truthy(heap[last'.recv]))
       /\ (last'.op = "List_append" /\ Len(heap[last'.recv].elements) = 0) =>
             (~isTrue(heap[last'.recv]) /\ isTrue(heap'[last'.recv]))]_vars

\* isTrue of the empty List is false.
C24_Witness ==
    /\ last.op = "isTrue" /\ heap[last.recv] = List(<<>>) /\ ~last.flag


\* ---------------------------------------------------------------- C25..C27
\* The number of Contexts on the chain of c, c included.
Depth(cs, c) == 1 + Cardinality(Ancestors(cs, c))

\* C25: however roots are created and createChild and setVariable are
\* called, a Context's parent was created before it and is never
\* reassigned, no Context is its own ancestor, and a lookup from any Context
\* visits at most as many Contexts as its chain is deep.
C25_Acyclic ==
    [][/\ \A c \in CtxIds : ctxs[c].alive => ctxs'[c].parent = ctxs[c].parent
       /\ \A c \in CtxIds : ctxs'[c].alive =>
             /\ ctxs'[c].parent < c
             /\ ctxs'[c].parent # 0 => ctxs'[ctxs'[c].parent].alive
             /\ c \notin Ancestors(ctxs', c)
             /\ AncK(ctxs', c, MaxCtx) = 0
             /\ \A n \in Names : Context_visits(ctxs', c, n) <= Depth(ctxs', c)]_vars

\* A chain of three Contexts beside nothing else: the lookup of y from the
\* innermost one visits all three.
C25_Witness ==
    /\ \E c \in CtxIds : ctxs[c].alive /\ Depth(ctxs, c) = 3 /\ Context_visits(ctxs, c, "y") = 3
    /\ last.op = "setVariable"


\* The names a Context binds locally.
Keys(cs, c) == {n \in Names : cs[c].variables[n] # 0}

\* C26: right after c.setVariable(name, value), c.getVariable(name) returns
\* value, whatever c or its ancestors bound to name before; the bindings of
\* the other names in c are unchanged, name is bound once, and no other
\* Context changes.
C26_SetVariable ==
    [][last'.op = "setVariable" =>
          LET c == last'.recv
              n == last'.name
          IN /\ Context_getVariable(ctxs', c, n) = [ok |-> TRUE, err |-> "", ref |-> last'.value]
             /\ \A m \in Names \ {n} : ctxs'[c].variables[m] = ctxs[c].variables[m]
             /\ Keys(ctxs', c) = Keys(ctxs, c) \cup {n}
             /\ \A d \in CtxIds \ {c} : ctxs'[d] = ctxs[d]]_vars

\* x is set to 2 in a Context that also binds y, below a parent binding x
\* to 1.
C26_Witness ==
    /\ last.op = "setVariable" /\ last.name = "x" /\ last.value = 2
    /\ ctxs[last.recv].variables["y"] = 1
    /\ ctxs[last.recv].parent # 0
    /\ ctxs[ctxs[last.recv].parent].variables["x"] = 1
    /\ ctxs[ctxs[last.recv].parent].parent # 0

\* The Contexts of the chain of d that lie below a (d itself included).
Below(cs, d, a) == {x \in {d} \cup Ancestors(cs, d) : a \in Ancestors(cs, x)}

\* C27: createChild returns a new Context with no local binding whose
\* parent is the receiver; a binding set on an ancestor a of d, after d was
\* created, is what d's getVariable and hasVariable see for that name,
\* unless a Context below a on d's chain binds the name.
C27_LiveLookup ==
    [][/\ last'.op = "createChild" =>
             /\ ~ctxs[last'.ref].alive
             /\ ctxs'[last'.ref] = [alive |-> TRUE, parent |-> last'.recv, variables |-> [n \in Names |-> 0]]
             /\ \A d \in CtxIds \ {last'.ref} : ctxs'[d] = ctxs[d]
       /\ last'.op = "setVariable" =>
             \A d \in Alive :
                 ( /\ last'.recv \in Ancestors(ctxs, d)
                   /\ \A x \in Below(ctxs, d, last'.recv) : ctxs[x].variables[last'.name] = 0 )
                 => /\ Context_getVariable(ctxs', d, last'.name).ok
                    /\ Context_getVariable(ctxs', d, last'.name).ref = last'.value
                    /\ Context_hasVariable(ctxs', d, last'.name)]_vars

\* The root has just bound x to 2, and its grandchild, which binds nothing,
\* sees 2.
C27_Witness ==
    /\ last.op = "setVariable" /\ last.name = "x" /\ last.value = 2 /\ last.recv = 1
    /\ \E d \in Alive :
          /\ Depth(ctxs, d) = 3
          /\ Keys(ctxs, d) = {}
          /\ Context_getVariable(ctxs, d, "x").ref = 2


\* ---------------------------------------------------------------------- C28
\* What a compileToExecutable step left behind: the generated text did not
\* (all) reach out.cpp; the build was invoked; the build came back nonzero.
WriteFailed == os'.files["out.cpp"] # generateCppCode("in", "source").generatedCode

BuildInvoked == Len(os'.cmds) > Len(os.cmds)

BuildFailed == BuildInvoked /\ os'.status # 0

\* C28: compileToExecutable generates, writes out.cpp, then builds, and
\* stops at the first failure: the build is not invoked when generation or
\* the write failed, it reads the file just written, and the result is a
\* failure exactly when a step that ran failed.
C28_StopsAtFirstFailure ==
    [][last'.op = "compileToExecutable" =>
        /\ WriteFailed => ~BuildInvoked
        /\ BuildInvoked => os'.cmds[Len(os'.cmds)].input = "out.cpp"
        /\ ~last'.ok <=> (WriteFailed \/ BuildFailed)]_vars

====
